---- MODULE Spec2Model ----
(***************************************************************************)
(* Kinesis producer / consumer pipeline.                                   *)
(*                                                                         *)
(*   producer lambda : packages/infra/producer/lambda/index.ts             *)
(*   consumer lambda : packages/infra/consumer/lambda/index.ts             *)
(*   event source    : packages/infra/consumer/src/main.ts                 *)
(*   stream          : packages/infra/stream/src/main.ts                   *)
(*                                                                         *)
(* Text is a sequence of Unicode code points, a Buffer is a sequence of    *)
(* bytes (0..255).  The conversions the two handlers apply                 *)
(* (JSON.stringify, Buffer.from(text), Buffer.from(text, 'base64'),        *)
(* Buffer.toString('utf-8'), JSON.parse) are computed on those sequences.  *)
(***************************************************************************)
EXTENDS Integers, Sequences, FiniteSets, TLC

(***************************************************************************)
(* Bounds of the model.                                                    *)
(***************************************************************************)
\* producer invocations the scheduler starts in one behaviour
MaxInvocations == 2
\* the wall clock runs from InitClock to MaxClock (milliseconds)
InitClock == 9
MaxClock == 10
\* longest batch handed to the consumer handler by InvokeWith
MaxBatch == 3
\* longest message text of the codec's round trip
MaxText == 2
\* most records put on the stream by other writers
MaxStream == 3
\* most invocations of the consumer handler where batches come again
MaxRuns == 3
\* most runs of `npm run deploy` and `npm run destroy`
MaxScripts == 4

(***************************************************************************)
(* Characters.  Printable is the ASCII range 32..126 in order; C(ch) is    *)
(* the code point of a one-character string, T(s) the text of a tuple of   *)
(* one-character strings ("grave" stands at the place of the backquote).   *)
(***************************************************************************)
Printable ==
  << " ", "!", "\"", "#", "$", "%", "&", "'", "(", ")", "*", "+", ",", "-", ".", "/",
     "0", "1", "2", "3", "4", "5", "6", "7", "8", "9", ":", ";", "<", "=", ">", "?",
     "@", "A", "B", "C", "D", "E", "F", "G", "H", "I", "J", "K", "L", "M", "N", "O",
     "P", "Q", "R", "S", "T", "U", "V", "W", "X", "Y", "Z", "[", "\\", "]", "^", "_",
     "grave", "a", "b", "c", "d", "e", "f", "g", "h", "i", "j", "k", "l", "m", "n", "o",
     "p", "q", "r", "s", "t", "u", "v", "w", "x", "y", "z", "{", "|", "}", "~" >>

C(ch) == 31 + (CHOOSE i \in 1..Len(Printable) : Printable[i] = ch)

T(s) == [i \in 1..Len(s) |-> C(s[i])]

cLBrace == C("{")
cRBrace == C("}")
cLBracket == C("[")
cRBracket == C("]")
cComma == C(",")
cColon == C(":")
cMinus == C("-")

\* U+FFFD, what a UTF-8 decoder puts in place of bytes that are not UTF-8
ReplacementChar == 65533

(***************************************************************************)
(* JSON values.  One shape for every value so that any two compare:        *)
(* t is the JS type, s the text of a string, n the value of a number,      *)
(* members the properties of an object in insertion order.                 *)
(***************************************************************************)
JStr(s) == [t |-> "string", s |-> s, n |-> 0, members |-> << >>]
JNum(n) == [t |-> "number", s |-> << >>, n |-> n, members |-> << >>]
JLit(name) == [t |-> name, s |-> << >>, n |-> 0, members |-> << >>]
JObj(members) == [t |-> "object", s |-> << >>, n |-> 0, members |-> members]
\* an array's items are members without a key
JArr(members) == [t |-> "array", s |-> << >>, n |-> 0, members |-> members]

Member(key, val) == [key |-> key, val |-> val]

HasKey(v, key) == v.t = "object" /\ \E i \in 1..Len(v.members) : v.members[i].key = key

\* v[key] of JS: the value of the property
Get(v, key) == v.members[CHOOSE i \in 1..Len(v.members) : v.members[i].key = key].val

\* obj[key] = val of JS: a new property goes last, a known one keeps its place
SetMember(members, key, val) ==
  IF \E i \in 1..Len(members) : members[i].key = key
  THEN [i \in 1..Len(members) |->
          IF members[i].key = key THEN Member(key, val) ELSE members[i]]
  ELSE Append(members, Member(key, val))

(***************************************************************************)
(* JSON.stringify (producer, line 15).  Numbers are integers, as           *)
(* Date.now() returns; strings hold no control character.                  *)
(***************************************************************************)
RECURSIVE Digits(_)
Digits(n) == IF n < 10 THEN << 48 + n >> ELSE Append(Digits(n \div 10), 48 + (n % 10))

\* a string's characters with '"' and '\' escaped
RECURSIVE Escaped(_)
Escaped(s) ==
  IF s = << >> THEN << >>
  ELSE (IF Head(s) = 34 \/ Head(s) = 92 THEN << 92, Head(s) >> ELSE << Head(s) >>)
       \o Escaped(Tail(s))

Quoted(s) == << 34 >> \o Escaped(s) \o << 34 >>

wTrue == T(<< "t", "r", "u", "e" >>)
wFalse == T(<< "f", "a", "l", "s", "e" >>)
wNull == T(<< "n", "u", "l", "l" >>)

RECURSIVE JSON_stringify(_)
RECURSIVE JSON_stringify_members(_, _, _)
JSON_stringify_members(members, i, isObject) ==
  IF i > Len(members) THEN << >>
  ELSE (IF i > 1 THEN << cComma >> ELSE << >>)
       \o (IF isObject THEN Quoted(members[i].key) \o << cColon >> ELSE << >>)
       \o JSON_stringify(members[i].val)
       \o JSON_stringify_members(members, i + 1, isObject)

JSON_stringify(v) ==
  CASE v.t = "object" ->
         << cLBrace >> \o JSON_stringify_members(v.members, 1, TRUE) \o << cRBrace >>
    [] v.t = "array" ->
         << cLBracket >> \o JSON_stringify_members(v.members, 1, FALSE) \o << cRBracket >>
    [] v.t = "string" -> Quoted(v.s)
    [] v.t = "number" ->
         IF v.n < 0 THEN << cMinus >> \o Digits(0 - v.n) ELSE Digits(v.n)
    [] v.t = "true" -> wTrue
    [] v.t = "false" -> wFalse
    [] OTHER -> wNull

(***************************************************************************)
(* Buffer.from(text): the UTF-8 bytes of a text (producer, line 15).       *)
(***************************************************************************)
Utf8Bytes(cp) ==
  IF cp < 128 THEN << cp >>
  ELSE IF cp < 2048 THEN << 192 + (cp \div 64), 128 + (cp % 64) >>
  ELSE << 224 + (cp \div 4096), 128 + ((cp \div 64) % 64), 128 + (cp % 64) >>

RECURSIVE Buffer_from(_)
Buffer_from(text) ==
  IF text = << >> THEN << >> ELSE Utf8Bytes(Head(text)) \o Buffer_from(Tail(text))

(***************************************************************************)
(* Buffer.toString('utf-8') (consumer, line 5): one, two and three byte    *)
(* sequences (texts are within U+0000..U+FFFF); a byte that starts no      *)
(* such sequence becomes U+FFFD.                                           *)
(***************************************************************************)
IsCont(bytes, i) == i <= Len(bytes) /\ bytes[i] >= 128 /\ bytes[i] < 192

RECURSIVE Buffer_toString(_, _)
Buffer_toString(bytes, i) ==
  IF i > Len(bytes) THEN << >>
  ELSE LET b == bytes[i] IN
    IF b < 128 THEN << b >> \o Buffer_toString(bytes, i + 1)
    ELSE IF b >= 194 /\ b < 224 /\ IsCont(bytes, i + 1)
      THEN << (b - 192) * 64 + (bytes[i + 1] - 128) >> \o Buffer_toString(bytes, i + 2)
    ELSE IF b >= 224 /\ b < 240 /\ IsCont(bytes, i + 1) /\ IsCont(bytes, i + 2)
            /\ (b - 224) * 4096 + (bytes[i + 1] - 128) * 64 >= 2048
            /\ ~((b - 224) * 4096 + (bytes[i + 1] - 128) * 64 \in 55296..57343)
      THEN << (b - 224) * 4096 + (bytes[i + 1] - 128) * 64 + (bytes[i + 2] - 128) >>
           \o Buffer_toString(bytes, i + 3)
    ELSE << ReplacementChar >> \o Buffer_toString(bytes, i + 1)

(***************************************************************************)
(* Base64.  The event source hands record.kinesis.data to the consumer as  *)
(* the base64 text of the record's bytes; Buffer.from(data, 'base64')      *)
(* (consumer, line 5) skips characters outside the alphabet, stops at      *)
(* '=' and drops an incomplete last group.                                 *)
(***************************************************************************)
B64Char(v) ==
  IF v < 26 THEN 65 + v
  ELSE IF v < 52 THEN 97 + (v - 26)
  ELSE IF v < 62 THEN 48 + (v - 52)
  ELSE IF v = 62 THEN 43 ELSE 47

\* the 6-bit value of a base64 character, 64 for '=', 65 for any other
B64Value(c) ==
  IF c >= 65 /\ c <= 90 THEN c - 65
  ELSE IF c >= 97 /\ c <= 122 THEN c - 97 + 26
  ELSE IF c >= 48 /\ c <= 57 THEN c - 48 + 52
  ELSE IF c = 43 \/ c = 45 THEN 62
  ELSE IF c = 47 \/ c = 95 THEN 63
  ELSE IF c = 61 THEN 64 ELSE 65

RECURSIVE Base64Encode(_)
Base64Encode(bytes) ==
  IF bytes = << >> THEN << >>
  ELSE IF Len(bytes) = 1 THEN
    << B64Char(bytes[1] \div 4), B64Char((bytes[1] % 4) * 16), 61, 61 >>
  ELSE IF Len(bytes) = 2 THEN
    << B64Char(bytes[1] \div 4),
       B64Char((bytes[1] % 4) * 16 + (bytes[2] \div 16)),
       B64Char((bytes[2] % 16) * 4), 61 >>
  ELSE
    << B64Char(bytes[1] \div 4),
       B64Char((bytes[1] % 4) * 16 + (bytes[2] \div 16)),
       B64Char((bytes[2] % 16) * 4 + (bytes[3] \div 64)),
       B64Char(bytes[3] % 64) >>
    \o Base64Encode(SubSeq(bytes, 4, Len(bytes)))

\* the 6-bit values of the legal characters before the first '='
RECURSIVE Sextets(_, _)
Sextets(text, i) ==
  IF i > Len(text) \/ B64Value(text[i]) = 64 THEN << >>
  ELSE IF B64Value(text[i]) = 65 THEN Sextets(text, i + 1)
  ELSE << B64Value(text[i]) >> \o Sextets(text, i + 1)

RECURSIVE SextetsToBytes(_)
SextetsToBytes(q) ==
  IF Len(q) < 2 THEN << >>
  ELSE IF Len(q) = 2 THEN << q[1] * 4 + (q[2] \div 16) >>
  ELSE IF Len(q) = 3 THEN
    << q[1] * 4 + (q[2] \div 16), (q[2] % 16) * 16 + (q[3] \div 4) >>
  ELSE
    << q[1] * 4 + (q[2] \div 16), (q[2] % 16) * 16 + (q[3] \div 4),
       (q[3] % 4) * 64 + q[4] >>
    \o SextetsToBytes(SubSeq(q, 5, Len(q)))

Buffer_from_base64(data) == SextetsToBytes(Sextets(data, 1))

(***************************************************************************)
(* JSON.parse (consumer, line 6), a recursive descent over the text.  A    *)
(* result with ok = FALSE is the SyntaxError JSON.parse throws.  Numbers   *)
(* are integer literals and string escapes are the two-character ones:     *)
(* fractions, exponents and \u escapes are outside the texts of the model. *)
(***************************************************************************)
ParseFail == [ok |-> FALSE, value |-> JLit("undefined"), next |-> 0]
ParseOk(v, next) == [ok |-> TRUE, value |-> v, next |-> next]

IsWs(c) == c \in {32, 9, 10, 13}
IsDigit(c) == c >= 48 /\ c <= 57

RECURSIVE SkipWs(_, _)
SkipWs(t, i) == IF i <= Len(t) /\ IsWs(t[i]) THEN SkipWs(t, i + 1) ELSE i

\* the character an escape \e stands for, 0 when \e is no escape
Unescape(e) ==
  CASE e = 34 -> 34 [] e = 92 -> 92 [] e = 47 -> 47
    [] e = 98 -> 8 [] e = 102 -> 12 [] e = 110 -> 10 [] e = 114 -> 13 [] e = 116 -> 9
    [] OTHER -> 0

\* i is the place after the opening quote
RECURSIVE ParseString(_, _, _)
ParseString(t, i, acc) ==
  IF i > Len(t) THEN ParseFail
  ELSE IF t[i] = 34 THEN ParseOk(JStr(acc), i + 1)
  ELSE IF t[i] < 32 THEN ParseFail
  ELSE IF t[i] = 92 THEN
    IF i + 1 > Len(t) \/ Unescape(t[i + 1]) = 0 THEN ParseFail
    ELSE ParseString(t, i + 2, Append(acc, Unescape(t[i + 1])))
  ELSE ParseString(t, i + 1, Append(acc, t[i]))

RECURSIVE DigitsRun(_, _, _)
DigitsRun(t, i, acc) ==
  IF i <= Len(t) /\ IsDigit(t[i]) THEN DigitsRun(t, i + 1, acc * 10 + (t[i] - 48))
  ELSE [val |-> acc, next |-> i]

ParseNumber(t, i) ==
  LET neg == t[i] = 45
      j == IF neg THEN i + 1 ELSE i
  IN IF j > Len(t) \/ ~IsDigit(t[j]) THEN ParseFail
     ELSE LET r == IF t[j] = 48 THEN [val |-> 0, next |-> j + 1] ELSE DigitsRun(t, j, 0)
          IN ParseOk(JNum(IF neg THEN 0 - r.val ELSE r.val), r.next)

StartsWith(t, i, word) ==
  i + Len(word) - 1 <= Len(t) /\ SubSeq(t, i, i + Len(word) - 1) = word

At(t, i, c) == i <= Len(t) /\ t[i] = c

RECURSIVE ParseValue(_, _)
RECURSIVE ParseMembers(_, _, _)
RECURSIVE ParseItems(_, _, _)

\* i is the place of the first character of a value
ParseValue(t, i) ==
  IF i > Len(t) THEN ParseFail
  ELSE IF At(t, i, cLBrace) THEN
    LET j == SkipWs(t, i + 1)
    IN IF At(t, j, cRBrace) THEN ParseOk(JObj(<< >>), j + 1) ELSE ParseMembers(t, j, << >>)
  ELSE IF At(t, i, cLBracket) THEN
    LET j == SkipWs(t, i + 1)
    IN IF At(t, j, cRBracket) THEN ParseOk(JArr(<< >>), j + 1) ELSE ParseItems(t, j, << >>)
  ELSE IF t[i] = 34 THEN ParseString(t, i + 1, << >>)
  ELSE IF t[i] = 45 \/ IsDigit(t[i]) THEN ParseNumber(t, i)
  ELSE IF StartsWith(t, i, wTrue) THEN ParseOk(JLit("true"), i + 4)
  ELSE IF StartsWith(t, i, wFalse) THEN ParseOk(JLit("false"), i + 5)
  ELSE IF StartsWith(t, i, wNull) THEN ParseOk(JLit("null"), i + 4)
  ELSE ParseFail

\* i is the place of a member's key
ParseMembers(t, i, acc) ==
  IF ~(i <= Len(t) /\ t[i] = 34) THEN ParseFail
  ELSE LET key == ParseString(t, i + 1, << >>) IN
    IF ~key.ok THEN ParseFail
    ELSE LET j == SkipWs(t, key.next) IN
      IF ~At(t, j, cColon) THEN ParseFail
      ELSE LET v == ParseValue(t, SkipWs(t, j + 1)) IN
        IF ~v.ok THEN ParseFail
        ELSE LET k == SkipWs(t, v.next)
                 members == SetMember(acc, key.value.s, v.value)
             IN IF At(t, k, cComma) THEN ParseMembers(t, SkipWs(t, k + 1), members)
                ELSE IF At(t, k, cRBrace) THEN ParseOk(JObj(members), k + 1)
                ELSE ParseFail

\* i is the place of an item
ParseItems(t, i, acc) ==
  LET v == ParseValue(t, i) IN
    IF ~v.ok THEN ParseFail
    ELSE LET k == SkipWs(t, v.next)
             items == Append(acc, Member(<< >>, v.value))
         IN IF At(t, k, cComma) THEN ParseItems(t, SkipWs(t, k + 1), items)
            ELSE IF At(t, k, cRBracket) THEN ParseOk(JArr(items), k + 1)
            ELSE ParseFail

JSON_parse(text) ==
  LET r == ParseValue(text, SkipWs(text, 1))
  IN IF r.ok /\ SkipWs(text, r.next) = Len(text) + 1
     THEN [ok |-> TRUE, value |-> r.value]
     ELSE [ok |-> FALSE, value |-> JLit("undefined")]

(***************************************************************************)
(* Constants of the program.                                               *)
(***************************************************************************)
\* batchSize of the KinesisEventSource
BatchSize == 5
\* faulty variant: the event source starts after the newest record
startingPosition_latest == "LATEST"
\* startingPosition of the KinesisEventSource
startingPosition == "TRIM_HORIZON"
\* the event source mapping has no place in the shard yet
NoIterator == -1
\* streamName and shardCount of the StreamStack
streamName == "MyStream"
shardCount == 1
\* stream.streamArn: the name of a stream is the end of its ARN
Arn(name) == "arn:aws:kinesis:stream/" \o name
\* the parameters the StreamStack writes
StreamNameParam == "/streams/my-stream/name"
StreamArnParam == "/streams/my-stream/arn"
\* faulty variant: the ProducerStack takes the ARN parameter for the name
ProducerParam_arn == "/streams/my-stream/arn"
\* the parameter the ProducerStack reads the stream's name from
ProducerParam == "/streams/my-stream/name"
\* the parameter the ProducerStack reads the ARN of its write grant from
ProducerGrantParam == "/streams/my-stream/arn"
\* the parameter the ConsumerStack reads the stream's ARN from
ConsumerParam == "/streams/my-stream/arn"

\* faulty variant: the stream goes first
destroy_all_streamFirst == << "destroy:stream", "destroy:consumer", "destroy:producer" >>
\* the npm scripts: commands joined by &&
deploy == << "deploy:stream", "deploy:producer", "deploy:consumer" >>
destroy_all == << "destroy:consumer", "destroy:producer", "destroy:stream" >>
destroy == destroy_all
PartitionKey == "key-1"

kMessage == T(<< "m", "e", "s", "s", "a", "g", "e" >>)
kTime == T(<< "t", "i", "m", "e" >>)
sHello == T(<< "H", "e", "l", "l", "o" >>)

kTimestamp == T(<< "t", "i", "m", "e", "s", "t", "a", "m", "p" >>)

\* faulty variant: the time goes under `timestamp`
MessageEvent_timestamp(message, time) ==
  JObj(<< Member(kMessage, JStr(message)), Member(kTimestamp, JNum(time)) >>)

\* interface MessageEvent { message: string; time: number }
MessageEvent(message, time) ==
  JObj(<< Member(kMessage, JStr(message)), Member(kTime, JNum(time)) >>)

IsMessageEvent(v) ==
  /\ v.t = "object"
  /\ HasKey(v, kMessage) /\ Get(v, kMessage).t = "string"
  /\ HasKey(v, kTime) /\ Get(v, kTime).t = "number"

Undefined == JLit("undefined")

(***************************************************************************)
(* State.                                                                  *)
(***************************************************************************)
VARIABLES
  clock,     \* Date.now()
  prod,      \* the producer invocations: pc, now, event, sends, req, result
  stream,    \* the records of the one shard of MyStream, oldest first
  prodLog,   \* the producer's log group: console.log lines
  cons,      \* the consumer invocation: pc, Records, idx, payload, message, result, run
  consLog,   \* the consumer's log group
  trace,     \* the statements the running consumer invocation has executed
  cursor,    \* records the event source mapping has checkpointed
  given,     \* what the records of the batch in hand were made from
  outcomes,  \* the results of the consumer invocations that have returned
  stacks,    \* the CloudFormation stacks that exist
  ssm,       \* the Parameter Store: name -> value, NoValue where there is none
  env,       \* the producer function's environment
  eventSource, \* the ARN of the stream the consumer function is mapped to
  npm        \* the npm script in hand: its commands, the one it is at, its status

vars == << clock, prod, stream, prodLog, cons, consLog, trace, cursor, given,
           outcomes, stacks, ssm, env, eventSource, npm >>

Invocations == 1..MaxInvocations

Pending == [status |-> "pending", error |-> "none"]
Fulfilled == [status |-> "fulfilled", error |-> "none"]
Rejected(error) == [status |-> "rejected", error |-> error]

\* what JSON.parse throws
SyntaxError == [name |-> "SyntaxError"]

\* what the PutRecord call can fail with
ServiceErrors == {"ProvisionedThroughputExceededException", "AccessDeniedException"}

\* the Parameter Store
NoParameters == [name \in {} |-> ""]
PutParameter(store, name, value) ==
  [k \in DOMAIN store \cup {name} |-> IF k = name THEN value ELSE store[k]]
DeleteParameter(store, name) == [k \in DOMAIN store \ {name} |-> store[k]]

\* what the StreamStack puts in the Parameter Store
StreamParameters(store) ==
  PutParameter(PutParameter(store, StreamNameParam, streamName),
               StreamArnParam, Arn(streamName))

\* valueForStringParameter is resolved by the deployment, which fails when
\* there is no such parameter
ProducerResolves(store) == {ProducerParam, ProducerGrantParam} \subseteq DOMAIN store
ProducerEnvironment(store) == [STREAM_NAME |-> store[ProducerParam]]
ConsumerResolves(store) == ConsumerParam \in DOMAIN store
ConsumerEventSource(store) == store[ConsumerParam]

NoEnvironment == [STREAM_NAME |-> "undefined"]
NoEventSource == "none"

InitHandlers ==
  /\ clock = InitClock
  /\ prod = [p \in Invocations |->
               [pc |-> "idle", now |-> 0, event |-> Undefined, sends |-> << >>,
                req |-> "none", result |-> Pending]]
  /\ stream = << >>
  /\ prodLog = << >>
  /\ cons = [pc |-> "idle", Records |-> << >>, idx |-> 0, payload |-> << >>,
             message |-> Undefined, result |-> Pending, run |-> 0]
  /\ consLog = << >>
  /\ trace = << >>
  /\ cursor = NoIterator
  /\ given = << >>
  /\ outcomes = << >>

\* the pipeline as `npm run deploy` leaves it
Init ==
  /\ InitHandlers
  /\ stacks = {"StreamStack", "ProducerStack", "ConsumerStack"}
  /\ ssm = StreamParameters(NoParameters)
  /\ env = ProducerEnvironment(ssm)
  /\ eventSource = ConsumerEventSource(ssm)
  /\ npm = [script |-> "deploy", at |-> 3, status |-> "ok", runs |-> 1]

\* the account before anything is deployed
InitDeploy ==
  /\ InitHandlers
  /\ stacks = {}
  /\ ssm = NoParameters
  /\ env = NoEnvironment
  /\ eventSource = NoEventSource
  /\ npm = [script |-> "none", at |-> 0, status |-> "none", runs |-> 0]

consumerVars == << cons, consLog, trace, cursor, given, outcomes >>
producerVars == << prod, prodLog >>
infraVars == << stacks, ssm, env, eventSource, npm >>

(***************************************************************************)
(* The wall clock.                                                         *)
(***************************************************************************)
Tick ==
  /\ clock < MaxClock
  /\ clock' = clock + 1
  /\ UNCHANGED << prod, stream, prodLog, consumerVars, infraVars >>

(***************************************************************************)
(* Producer handler.                                                       *)
(***************************************************************************)
\* line 15: Buffer.from(JSON.stringify(event))
Encode(event) == Buffer_from(JSON_stringify(event))

PutRecordCommand(event) ==
  [StreamName |-> env.STREAM_NAME,
   PartitionKey |-> PartitionKey,
   Data |-> Encode(event)]

\* faulty variant: the line is logged before the send
ProducerStart_logsFirst(p) ==
  /\ prod[p].pc = "idle"
  /\ IF p = 1 THEN TRUE ELSE prod[p - 1].pc # "idle"
  /\ LET event == MessageEvent(sHello, clock)
     IN /\ prod' = [prod EXCEPT ![p] =
                      [@ EXCEPT !.pc = "awaiting", !.now = clock, !.event = event,
                                !.sends = Append(@, PutRecordCommand(event)),
                                !.req = "sent"]]
        /\ prodLog' = Append(prodLog,
                         [inv |-> p, tag |-> "Producer sent:", value |-> event])
  /\ UNCHANGED << clock, stream, consumerVars, infraVars >>

\* faulty variant: the time is cut to its last digit
ProducerStart_lastDigit(p) ==
  /\ prod[p].pc = "idle"
  /\ IF p = 1 THEN TRUE ELSE prod[p - 1].pc # "idle"
  /\ LET event == MessageEvent(sHello, clock % 10)
     IN prod' = [prod EXCEPT ![p] =
                   [@ EXCEPT !.pc = "awaiting", !.now = clock, !.event = event,
                             !.sends = Append(@, PutRecordCommand(event)),
                             !.req = "sent"]]
  /\ UNCHANGED << clock, stream, prodLog, consumerVars, infraVars >>

\* lines 7-16, up to the await: build the event and call client.send once
ProducerStart(p) ==
  /\ prod[p].pc = "idle"
  /\ IF p = 1 THEN TRUE ELSE prod[p - 1].pc # "idle"
  /\ LET event == MessageEvent(sHello, clock)
     IN prod' = [prod EXCEPT ![p] =
                   [@ EXCEPT !.pc = "awaiting", !.now = clock, !.event = event,
                             !.sends = Append(@, PutRecordCommand(event)),
                             !.req = "sent"]]
  /\ UNCHANGED << clock, stream, prodLog, consumerVars, infraVars >>

\* the stream takes the record of a PutRecord request
KinesisStore(p) ==
  /\ prod[p].req = "sent"
  /\ LET cmd == prod[p].sends[Len(prod[p].sends)]
     IN /\ cmd.StreamName = streamName
        /\ stream' = Append(stream,
                      [PartitionKey |-> cmd.PartitionKey, Data |-> cmd.Data,
                       SequenceNumber |-> Len(stream) + 1, inv |-> p,
                       kind |-> "message", source |-> prod[p].event])
  /\ prod' = [prod EXCEPT ![p].req = "stored"]
  /\ UNCHANGED << clock, prodLog, consumerVars, infraVars >>

\* the stream refuses a PutRecord request
KinesisReject(p) ==
  /\ prod[p].req = "sent"
  /\ \E e \in ServiceErrors : prod' = [prod EXCEPT ![p].req = e]
  /\ UNCHANGED << clock, stream, prodLog, consumerVars, infraVars >>

\* faulty variant: the handler throws after the await resolved
ProducerResume_throwsAfter(p) ==
  /\ prod[p].pc = "awaiting"
  /\ prod[p].req = "stored"
  /\ prod' = [prod EXCEPT ![p].pc = "failed",
                          ![p].result = Rejected("TypeError")]
  /\ UNCHANGED << clock, stream, prodLog, consumerVars, infraVars >>

\* faulty variant: the logged object is built again when the await resolves
ProducerResume_rebuilt(p) ==
  /\ prod[p].pc = "awaiting"
  /\ prod[p].req = "stored"
  /\ prodLog' = Append(prodLog,
                  [inv |-> p, tag |-> "Producer sent:",
                   value |-> JObj(<< Member(kMessage, JStr(sHello)),
                                     Member(kTime, JNum(clock)) >>)])
  /\ prod' = [prod EXCEPT ![p].pc = "done", ![p].result = Fulfilled]
  /\ UNCHANGED << clock, stream, consumerVars, infraVars >>

\* faulty variant: `event` is a variable of the module, shared by the
\* invocations; the line logged is the event built last
ProducerResume_sharedEvent(p) ==
  /\ prod[p].pc = "awaiting"
  /\ prod[p].req = "stored"
  /\ LET last == CHOOSE q \in Invocations :
                   /\ prod[q].pc # "idle"
                   /\ \A r \in Invocations : prod[r].pc # "idle" => r <= q
     IN prodLog' = Append(prodLog,
                     [inv |-> p, tag |-> "Producer sent:", value |-> prod[last].event])
  /\ prod' = [prod EXCEPT ![p].pc = "done", ![p].result = Fulfilled]
  /\ UNCHANGED << clock, stream, consumerVars, infraVars >>

\* lines 12-18: the await resolves, the handler logs the event and returns
ProducerResume(p) ==
  /\ prod[p].pc = "awaiting"
  /\ prod[p].req = "stored"
  /\ prodLog' = Append(prodLog,
                  [inv |-> p, tag |-> "Producer sent:", value |-> prod[p].event])
  /\ prod' = [prod EXCEPT ![p].pc = "done", ![p].result = Fulfilled]
  /\ UNCHANGED << clock, stream, consumerVars, infraVars >>

\* faulty variant: a failed send is sent again
ProducerThrow_retry(p) ==
  /\ prod[p].pc = "awaiting"
  /\ prod[p].req \in ServiceErrors
  /\ Len(prod[p].sends) < 2
  /\ prod' = [prod EXCEPT ![p].sends = Append(@, PutRecordCommand(prod[p].event)),
                          ![p].req = "sent"]
  /\ UNCHANGED << clock, stream, prodLog, consumerVars, infraVars >>

\* faulty variant: the error of the send is caught and the handler carries on
ProducerThrow_swallow(p) ==
  /\ prod[p].pc = "awaiting"
  /\ prod[p].req \in ServiceErrors
  /\ prodLog' = Append(prodLog,
                  [inv |-> p, tag |-> "Producer sent:", value |-> prod[p].event])
  /\ prod' = [prod EXCEPT ![p].pc = "done", ![p].result = Fulfilled]
  /\ UNCHANGED << clock, stream, consumerVars, infraVars >>

\* lines 12-16: the await throws; nothing catches, the handler rejects
ProducerThrow(p) ==
  /\ prod[p].pc = "awaiting"
  /\ prod[p].req \in ServiceErrors
  /\ prod' = [prod EXCEPT ![p].pc = "failed", ![p].result = Rejected(prod[p].req)]
  /\ UNCHANGED << clock, stream, prodLog, consumerVars, infraVars >>

\* the function's timeout ends an invocation that is still awaiting
ProducerTimeout(p) ==
  /\ prod[p].pc = "awaiting"
  /\ prod' = [prod EXCEPT ![p].pc = "timedout",
                          ![p].result = Rejected("Task timed out")]
  /\ UNCHANGED << clock, stream, prodLog, consumerVars, infraVars >>

(***************************************************************************)
(* Consumer handler.  cons.idx is the place in event.Records of the record *)
(* the loop is at (1-based); a batch position is cons.idx - 1.             *)
(***************************************************************************)
Step(op) == [op |-> op, position |-> cons.idx - 1]

Reverse(seq) == [i \in 1..Len(seq) |-> seq[Len(seq) + 1 - i]]

\* faulty variant: the loop goes over the records from the last to the first
ConsumerInvoke_reversed(event) ==
  /\ cons.pc = "idle"
  /\ cons' = [pc |-> IF event.Records = << >> THEN "done" ELSE "decode",
              Records |-> Reverse(event.Records), idx |-> 1, payload |-> << >>,
              message |-> Undefined,
              result |-> IF event.Records = << >> THEN Fulfilled ELSE Pending,
              run |-> cons.run + 1]
  /\ trace' = << >>

\* the handler is called with an event
ConsumerInvoke(event) ==
  /\ cons.pc = "idle"
  /\ cons' = [pc |-> IF event.Records = << >> THEN "done" ELSE "decode",
              Records |-> event.Records, idx |-> 1, payload |-> << >>,
              message |-> Undefined,
              result |-> IF event.Records = << >> THEN Fulfilled ELSE Pending,
              run |-> cons.run + 1]
  /\ trace' = << >>

\* faulty variant: Buffer.from(record.kinesis.data) without 'base64'
ConsumerDecode_noBase64 ==
  /\ cons.pc = "decode"
  /\ cons' = [cons EXCEPT
       !.pc = "parse",
       !.payload = Buffer_toString(Buffer_from(cons.Records[cons.idx].kinesis.data), 1)]
  /\ trace' = Append(trace, Step("decode"))
  /\ UNCHANGED << clock, producerVars, stream, consLog, cursor, given, outcomes, infraVars >>

\* line 5: Buffer.from(record.kinesis.data, 'base64').toString('utf-8')
ConsumerDecode ==
  /\ cons.pc = "decode"
  /\ cons' = [cons EXCEPT
       !.pc = "parse",
       !.payload = Buffer_toString(Buffer_from_base64(cons.Records[cons.idx].kinesis.data), 1)]
  /\ trace' = Append(trace, Step("decode"))
  /\ UNCHANGED << clock, producerVars, stream, consLog, cursor, given, outcomes, infraVars >>

\* faulty variant: the next record is taken up before the parsed one is logged
ConsumerParse_ahead ==
  /\ cons.pc = "parse"
  /\ LET r == JSON_parse(cons.payload)
     IN cons' = IF ~r.ok
                THEN [cons EXCEPT !.pc = "failed", !.result = Rejected(SyntaxError)]
                ELSE IF cons.idx < Len(cons.Records)
                THEN [cons EXCEPT !.pc = "decode", !.idx = @ + 1, !.message = r.value]
                ELSE [cons EXCEPT !.pc = "log", !.message = r.value]
  /\ trace' = Append(trace, Step("parse"))
  /\ UNCHANGED << clock, producerVars, stream, consLog, cursor, given, outcomes, infraVars >>

\* faulty variant: a record that does not parse is skipped
ConsumerParse_skip ==
  /\ cons.pc = "parse"
  /\ LET r == JSON_parse(cons.payload)
     IN cons' = IF r.ok
                THEN [cons EXCEPT !.pc = "log", !.message = r.value]
                ELSE IF cons.idx < Len(cons.Records)
                THEN [cons EXCEPT !.pc = "decode", !.idx = @ + 1]
                ELSE [cons EXCEPT !.pc = "done", !.result = Fulfilled]
  /\ trace' = Append(trace, Step("parse"))
  /\ UNCHANGED << clock, producerVars, stream, consLog, cursor, given, outcomes, infraVars >>

\* faulty variant: the SyntaxError is caught and the record is logged as undefined
ConsumerParse_catch ==
  /\ cons.pc = "parse"
  /\ LET r == JSON_parse(cons.payload)
     IN cons' = [cons EXCEPT !.pc = "log",
                             !.message = IF r.ok THEN r.value ELSE Undefined]
  /\ trace' = Append(trace, Step("parse"))
  /\ UNCHANGED << clock, producerVars, stream, consLog, cursor, given, outcomes, infraVars >>

\* line 6: JSON.parse(payload); a SyntaxError leaves the loop and the handler
ConsumerParse ==
  /\ cons.pc = "parse"
  /\ LET r == JSON_parse(cons.payload)
     IN cons' = IF r.ok
                THEN [cons EXCEPT !.pc = "log", !.message = r.value]
                ELSE [cons EXCEPT !.pc = "failed", !.result = Rejected(SyntaxError)]
  /\ trace' = Append(trace, Step("parse"))
  /\ UNCHANGED << clock, producerVars, stream, consLog, cursor, given, outcomes, infraVars >>

\* faulty variant: the handler takes the oldest record off the stream when
\* it has logged a record
ConsumerLog_deletes ==
  /\ cons.pc = "log"
  /\ consLog' = Append(consLog,
                  [run |-> cons.run, seq |-> cons.Records[cons.idx].kinesis.sequenceNumber,
                   tag |-> "Consumer received:", value |-> cons.message])
  /\ cons' = IF cons.idx < Len(cons.Records)
             THEN [cons EXCEPT !.pc = "decode", !.idx = @ + 1]
             ELSE [cons EXCEPT !.pc = "done", !.result = Fulfilled]
  /\ trace' = Append(trace, Step("log"))
  /\ stream' = IF stream = << >> THEN stream ELSE Tail(stream)
  /\ UNCHANGED << clock, producerVars, cursor, given, outcomes, infraVars >>

\* faulty variant: a message equal to the one logged last is not logged again
ConsumerLog_dedupe ==
  /\ cons.pc = "log"
  /\ consLog' = IF consLog # << >> /\ consLog[Len(consLog)].value = cons.message
                THEN consLog
                ELSE Append(consLog,
                       [run |-> cons.run,
                        seq |-> cons.Records[cons.idx].kinesis.sequenceNumber,
                        tag |-> "Consumer received:", value |-> cons.message])
  /\ cons' = IF cons.idx < Len(cons.Records)
             THEN [cons EXCEPT !.pc = "decode", !.idx = @ + 1]
             ELSE [cons EXCEPT !.pc = "done", !.result = Fulfilled]
  /\ trace' = Append(trace, Step("log"))
  /\ UNCHANGED << clock, producerVars, stream, cursor, given, outcomes, infraVars >>

\* line 7: console.log, then the loop takes the next record or ends
ConsumerLog ==
  /\ cons.pc = "log"
  /\ consLog' = Append(consLog,
                  [run |-> cons.run, seq |-> cons.Records[cons.idx].kinesis.sequenceNumber,
                   tag |-> "Consumer received:", value |-> cons.message])
  /\ cons' = IF cons.idx < Len(cons.Records)
             THEN [cons EXCEPT !.pc = "decode", !.idx = @ + 1]
             ELSE [cons EXCEPT !.pc = "done", !.result = Fulfilled]
  /\ trace' = Append(trace, Step("log"))
  /\ UNCHANGED << clock, producerVars, stream, cursor, given, outcomes, infraVars >>

(***************************************************************************)
(* The event source mapping: TRIM_HORIZON, batches of at most BatchSize,   *)
(* one batch of the shard at a time; a batch is checkpointed when the      *)
(* handler resolves and handed over again when it rejects.                 *)
(***************************************************************************)
Min(a, b) == IF a < b THEN a ELSE b

\* a record of a batch: the value it was made from, and its bytes
Item(kind, source, bytes) == [kind |-> kind, source |-> source, Data |-> bytes]

KinesisEvent(records) ==
  [Records |-> [i \in 1..Len(records) |->
     [kinesis |-> [data |-> Base64Encode(records[i].Data),
                   partitionKey |-> records[i].PartitionKey,
                   sequenceNumber |-> records[i].SequenceNumber]]]]

\* the event source mapping takes its place in the shard when it starts to
\* poll: TRIM_HORIZON is the oldest record, LATEST is after the newest
Attach ==
  /\ cursor = NoIterator
  /\ eventSource = Arn(streamName)
  /\ cursor' = IF startingPosition = "TRIM_HORIZON" THEN 0 ELSE Len(stream)
  /\ UNCHANGED << clock, producerVars, stream, cons, consLog, trace, given,
                  outcomes, infraVars >>

Deliver ==
  /\ eventSource = Arn(streamName)
  /\ cursor # NoIterator
  /\ cursor < Len(stream)
  /\ LET records == SubSeq(stream, cursor + 1, Min(Len(stream), cursor + BatchSize))
     IN /\ ConsumerInvoke(KinesisEvent(records))
        /\ given' = [i \in 1..Len(records) |->
                       Item(records[i].kind, records[i].source, records[i].Data)]
  /\ UNCHANGED << clock, producerVars, stream, consLog, cursor, outcomes, infraVars >>

\* faulty variant: a failed batch is checkpointed up to the record that failed
ConsumerReturn_partialAck ==
  /\ cons.pc \in {"done", "failed"}
  /\ cursor' = IF cons.pc = "done" THEN cursor + Len(cons.Records)
                ELSE cursor + cons.idx - 1
  /\ cons' = [cons EXCEPT !.pc = "idle"]
  /\ outcomes' = Append(outcomes, cons.result)
  /\ UNCHANGED << clock, producerVars, stream, consLog, trace, given, infraVars >>

\* the handler's promise settles: a resolved batch is checkpointed, a
\* rejected one is left to be handed over again
ConsumerReturn ==
  /\ cons.pc \in {"done", "failed"}
  /\ cursor' = IF cons.pc = "done" THEN cursor + Len(cons.Records) ELSE cursor
  /\ cons' = [cons EXCEPT !.pc = "idle"]
  /\ outcomes' = Append(outcomes, cons.result)
  /\ UNCHANGED << clock, producerVars, stream, consLog, trace, given, infraVars >>

(***************************************************************************)
(* The pipeline: scheduler, producer, stream, event source, consumer.      *)
(***************************************************************************)
Next ==
  \/ Tick
  \/ \E p \in Invocations : ProducerStart(p)
  \/ \E p \in Invocations : KinesisStore(p)
  \/ \E p \in Invocations : KinesisReject(p)
  \/ \E p \in Invocations : ProducerResume(p)
  \/ \E p \in Invocations : ProducerThrow(p)
  \/ \E p \in Invocations : ProducerTimeout(p)
  \/ Attach
  \/ Deliver
  \/ ConsumerDecode
  \/ ConsumerParse
  \/ ConsumerLog
  \/ ConsumerReturn

Spec == Init /\ [][Next]_vars

\* The event source mapping starts polling once it is deployed and polls
\* the shard for as long as it exists, and a handler that was invoked runs
\* to its end: every step of the consumer side is taken if it stays
\* possible.  Nothing is assumed of the producer's requests.  A statement
\* of the handler is enabled exactly while cons.pc is at it and moves
\* cons.pc on, so weak fairness of the statement is that cons.pc is again
\* and again not at it.
Runs(pc) == []<>(cons.pc # pc)

\* likewise for the poll, which is enabled exactly while the handler is idle
\* and a record lies after the checkpoint, and which starts the handler
CanDeliver ==
  /\ eventSource = Arn(streamName)
  /\ cursor # NoIterator
  /\ cursor < Len(stream)
  /\ cons.pc = "idle"

SpecFair ==
  /\ Spec
  /\ WF_vars(Attach)
  /\ []<>~CanDeliver
  /\ Runs("decode")
  /\ Runs("parse")
  /\ Runs("log")
  /\ WF_vars(ConsumerReturn)

(***************************************************************************)
(* The consumer handler on its own, called once with any batch of at most  *)
(* MaxBatch records drawn from TestItems: Messages as the producer encodes *)
(* them, a document without `time`, one without `message`, one with a      *)
(* field more, a text that is not JSON, a cut-off document, bytes that are *)
(* not UTF-8.                                                              *)
(***************************************************************************)
TestMessages ==
  { MessageEvent(sHello, 9),
    MessageEvent(T(<< "a", "\"", "b", "\\" >>), 1700) }

kExtra == T(<< "e", "x", "t", "r", "a" >>)

NoTime == JObj(<< Member(kMessage, JStr(sHello)) >>)
NoMessage == JObj(<< Member(kTime, JNum(10)) >>)
WithExtra ==
  JObj(<< Member(kMessage, JStr(sHello)), Member(kTime, JNum(11)),
          Member(kExtra, JLit("true")) >>)

CutOff(bytes) == SubSeq(bytes, 1, Len(bytes) - 1)

TestItems ==
  { Item("message", m, Encode(m)) : m \in TestMessages }
  \cup { Item("missing", NoTime, Encode(NoTime)),
         Item("missing", NoMessage, Encode(NoMessage)),
         Item("extra", WithExtra, Encode(WithExtra)),
         Item("malformed", Undefined, Buffer_from(sHello)),
         Item("malformed", Undefined, CutOff(Encode(MessageEvent(sHello, 9)))),
         Item("malformed", Undefined, << 255, 254 >>) }

TestBatches == UNION { [1..n -> TestItems] : n \in 0..MaxBatch }

InvokeWith ==
  /\ cons.run = 0
  /\ \E batch \in TestBatches :
       /\ ConsumerInvoke(KinesisEvent(
            [i \in 1..Len(batch) |->
               [PartitionKey |-> PartitionKey, Data |-> batch[i].Data,
                SequenceNumber |-> i]]))
       /\ given' = batch
  /\ UNCHANGED << clock, producerVars, stream, consLog, cursor, outcomes, infraVars >>

NextBatch ==
  \/ InvokeWith
  \/ ConsumerDecode
  \/ ConsumerParse
  \/ ConsumerLog

SpecBatch == Init /\ [][NextBatch]_vars

(***************************************************************************)
(* The codec end to end: a batch of the one record the producer's          *)
(* PutRecordCommand makes of a Message, for every Message whose text is of *)
(* 1..MaxText characters of TextAlphabet and whose time is in TestTimes.   *)
(***************************************************************************)
\* a, '"', '\', U+00E9 (two bytes of UTF-8), U+20AC (three bytes)
TextAlphabet == {97, 34, 92, 233, 8364}

Texts == UNION { [1..n -> TextAlphabet] : n \in 1..MaxText }

TestTimes == {0, 9, 10, 1700}

Messages == { MessageEvent(text, time) : text \in Texts, time \in TestTimes }

InvokeRoundTrip ==
  /\ cons.run = 0
  /\ \E m \in Messages :
       LET cmd == PutRecordCommand(m)
       IN /\ ConsumerInvoke(KinesisEvent(
               << [PartitionKey |-> cmd.PartitionKey, Data |-> cmd.Data,
                   SequenceNumber |-> 1] >>))
          /\ given' = << Item("message", m, cmd.Data) >>
  /\ UNCHANGED << clock, producerVars, stream, consLog, cursor, outcomes, infraVars >>

NextCodec ==
  \/ InvokeRoundTrip
  \/ ConsumerDecode
  \/ ConsumerParse
  \/ ConsumerLog

SpecCodec == Init /\ [][NextCodec]_vars

(***************************************************************************)
(* Properties of the producer handler.                                     *)
(***************************************************************************)
Started(p) == prod[p].pc # "idle"

RecordsOf(p) == { i \in 1..Len(stream) : stream[i].inv = p }
LinesOf(p) == { i \in 1..Len(prodLog) : prodLog[i].inv = p }

\* C1: a producer invocation calls client.send once, with one record, and
\* its failure is followed by no second call; the stream never holds two
\* records of one invocation.
C1_OneAppendAttempt ==
  \A p \in Invocations :
    /\ Len(prod[p].sends) = (IF Started(p) THEN 1 ELSE 0)
    /\ Cardinality(RecordsOf(p)) <= 1

C1_Witness ==
  \E p, q \in Invocations :
    /\ prod[p].pc = "failed" /\ Len(prod[p].sends) = 1 /\ RecordsOf(p) = {}
    /\ prod[q].pc = "done" /\ Cardinality(RecordsOf(q)) = 1

\* C2: an invocation whose PutRecord call failed never resolves and logs
\* nothing, and when the await throws the handler rejects with the very
\* error of the call.
C2_AppendFailureSurfaced ==
  \A p \in Invocations :
    /\ prod[p].req \in ServiceErrors =>
         /\ prod[p].pc \in {"awaiting", "failed", "timedout"}
         /\ prod[p].result.status # "fulfilled"
         /\ LinesOf(p) = {}
    /\ prod[p].pc = "failed" =>
         /\ prod[p].req \in ServiceErrors
         /\ prod[p].result = Rejected(prod[p].req)

C2_Witness ==
  \E p \in Invocations :
    /\ prod[p].pc = "failed"
    /\ prod[p].result = Rejected("AccessDeniedException")
    /\ prodLog # << >>

\* C3: a producer invocation logs at most once, exactly once when its send
\* resolved, never before the stream has taken its record, and the logged
\* event is the one whose encoding lies in the stream.
C3_OneLineAfterAppend ==
  \A p \in Invocations :
    /\ Cardinality(LinesOf(p)) = (IF prod[p].pc = "done" THEN 1 ELSE 0)
    /\ \A i \in LinesOf(p) :
         /\ prod[p].req = "stored"
         /\ \E j \in RecordsOf(p) : stream[j].Data = Encode(prodLog[i].value)
         /\ prodLog[i].value = prod[p].event

C3_Witness ==
  \E p \in Invocations :
    /\ prod[p].pc = "done"
    /\ LinesOf(p) # {}
    /\ prod[p].now < clock

\* the wire text {"message":"Hello","<keyOfTime>":<t>}
WireHead ==
  T(<< "{", "\"", "m", "e", "s", "s", "a", "g", "e", "\"", ":",
       "\"", "H", "e", "l", "l", "o", "\"", ",", "\"" >>)
WireMid == T(<< "\"", ":" >>)
WireTail == T(<< "}" >>)
WireText(keyOfTime, t) == WireHead \o keyOfTime \o WireMid \o Digits(t) \o WireTail

BuiltAs(p, keyOfTime) ==
  /\ prod[p].event.t = "object"
  /\ Len(prod[p].event.members) = 2
  /\ prod[p].event.members[1] = Member(kMessage, JStr(sHello))
  /\ prod[p].event.members[2] = Member(keyOfTime, JNum(prod[p].now))
  /\ prod[p].sends[1].Data = Buffer_from(WireText(keyOfTime, prod[p].now))
  /\ prod[p].sends[1].PartitionKey = "key-1"

\* C4 as stated: the invocation that reads the clock as t builds
\* {message: "Hello", timestamp: t} and sends its encoding.
C4_Original == \A p \in Invocations : Started(p) => BuiltAs(p, kTimestamp)

\* C4 amended: the invocation that reads the clock as t builds
\* {message: "Hello", time: t} and sends the bytes of
\* {"message":"Hello","time":t}; the attribute is named `time`.
C4_BuildsHelloWithTime == \A p \in Invocations : Started(p) => BuiltAs(p, kTime)

C4_Witness ==
  \E p \in Invocations :
    Started(p) /\ prod[p].now > InitClock /\ prod[p].now >= 10

(***************************************************************************)
(* Properties of the consumer handler.                                     *)
(***************************************************************************)
Ops == << "decode", "parse", "log" >>

Malformed(i) == given[i].kind = "malformed"
WellFormedBatch == \A i \in 1..Len(given) : ~Malformed(i)
\* the place of the first record that is not JSON
FirstMalformed == CHOOSE i \in 1..Len(given) : Malformed(i) /\ \A j \in 1..(i - 1) : ~Malformed(j)

Terminal == cons.pc \in {"done", "failed"}

\* C5: the handler's statements run record by record in batch order:
\* decode, parse and log of position i, then decode of position i+1; the
\* trace is a prefix of d0 p0 l0 d1 p1 l1 ..., so the log of a record is
\* complete before the next record is touched and one record is in hand.
C5_Sequential ==
  \A a \in 1..Len(trace) :
    /\ trace[a].op = Ops[((a - 1) % 3) + 1]
    /\ trace[a].position = (a - 1) \div 3
    /\ trace[a].position < Len(cons.Records)

C5_Witness ==
  /\ cons.pc = "decode"
  /\ cons.idx = 3
  /\ Len(trace) = 6
  /\ trace[6] = [op |-> "log", position |-> 1]

SamePair(a, b) ==
  \A key \in {kMessage, kTime} :
    /\ HasKey(a, key) = HasKey(b, key)
    /\ HasKey(a, key) => Get(a, key) = Get(b, key)

\* C6: on a batch of N records that are all JSON documents the handler
\* never fails, the lines it has logged are those of the first records of
\* the batch in order, with the message and time of the record each, and
\* when it has resolved there are N of them.
C6_LogsWellFormedBatch ==
  WellFormedBatch =>
    /\ cons.pc # "failed"
    /\ Len(consLog) <= Len(given)
    /\ \A i \in 1..Len(consLog) : SamePair(consLog[i].value, given[i].source)
    /\ cons.pc = "done" => Len(consLog) = Len(given) /\ cons.result = Fulfilled

C6_Witness ==
  /\ WellFormedBatch
  /\ cons.pc = "done"
  /\ Len(given) = 3
  /\ given[1].source # given[2].source
  /\ Len(consLog) = 3

C8_RoundTrip ==
  /\ cons.pc # "failed"
  /\ cons.pc = "parse" =>
       /\ trace = << [op |-> "decode", position |-> 0] >>
       /\ cons.payload = JSON_stringify(given[1].source)
  /\ cons.pc \in {"log", "done"} =>
       /\ cons.message = given[1].source
       /\ trace[1].op = "decode" /\ trace[2].op = "parse"
  /\ \A i \in 1..Len(consLog) : consLog[i].value = given[1].source

C8_Witness ==
  /\ cons.pc = "done"
  /\ consLog # << >>
  /\ consLog[1].value = MessageEvent(<< 34, 8364 >>, 1700)

\* C9: a payload that is not JSON makes JSON.parse throw a SyntaxError (the
\* MalformedPayload of the design), the handler rejects with it at that
\* record, which is not logged, and a handler that resolved met no such
\* payload.
C9_MalformedPropagates ==
  /\ cons.pc = "done" => WellFormedBatch
  /\ cons.pc = "log" => ~Malformed(cons.idx)
  /\ cons.pc = "failed" =>
       /\ Malformed(cons.idx)
       /\ cons.result.status = "rejected"
       /\ cons.result.error.name = "SyntaxError"
       /\ Len(consLog) = cons.idx - 1
  /\ \A i \in 1..Len(consLog) : ~Malformed(i)

C9_Witness ==
  /\ cons.pc = "failed"
  /\ Malformed(cons.idx)
  /\ cons.idx < Len(given)
  /\ cons.payload = sHello

Missing(i) == given[i].kind = "missing"

\* C10: a JSON document without `message` or without `time` is never
\* handed to console.log, and the handler that parsed one rejects with
\* MissingField.
C10_MissingFieldRejected ==
  /\ cons.pc = "log" => ~Missing(cons.idx)
  /\ \A i \in 1..Len(consLog) : IsMessageEvent(consLog[i].value)
  /\ (Terminal /\ \E i \in 1..Len(given) : Missing(i) /\ \A j \in 1..i : ~Malformed(j)) =>
       /\ cons.pc = "failed"
       /\ Missing(cons.idx)
       /\ cons.result.error.name = "MissingField"

Extra(i) == given[i].kind = "extra"

Keys(v) == { v.members[i].key : i \in 1..Len(v.members) }

\* C11: a document with `message`, `time` and one field more parses, and
\* the field more is left out: the parsed Message and the line logged for
\* it hold `message` and `time` only.
C11_ExtraFieldIgnored ==
  /\ cons.pc = "failed" => ~Extra(cons.idx)
  /\ (cons.pc = "log" /\ Extra(cons.idx)) =>
       /\ IsMessageEvent(cons.message)
       /\ Keys(cons.message) = {kMessage, kTime}
  /\ \A i \in 1..Len(consLog) :
       Extra(i) => /\ SamePair(consLog[i].value, given[i].source)
                   /\ Keys(consLog[i].value) = {kMessage, kTime}

\* C20: the handler stops at the first record that is not JSON: when it
\* has ended on a batch whose first such record is at position k, the lines
\* logged are those of positions 0..k-1, one each and in order, and no
\* statement has run on a position after k.
C20_ProcessThenStop ==
  (Terminal /\ ~WellFormedBatch) =>
    /\ Len(consLog) = FirstMalformed - 1
    /\ \A i \in 1..Len(consLog) :
         /\ consLog[i].run = cons.run
         /\ SamePair(consLog[i].value, given[i].source)
    /\ \A a \in 1..Len(trace) : trace[a].position <= FirstMalformed - 1
    /\ ~\E a \in 1..Len(trace) :
          trace[a].op = "log" /\ trace[a].position = FirstMalformed - 1

C20_Witness ==
  /\ cons.pc = "failed"
  /\ Len(given) = 3
  /\ FirstMalformed = 2
  /\ Malformed(3)
  /\ Len(consLog) = 1
  /\ Len(trace) = 5

(***************************************************************************)
(* Properties of the pipeline.                                             *)
(***************************************************************************)
TimeOf(p) == Get(prod[p].event, kTime).n

\* C16: the event a producer invocation builds has a message text that is
\* not empty, and of two invocations the later started carries a time that
\* is not less (Date.now() does not go back).
C16_NonEmptyNonDecreasing ==
  \A p \in Invocations :
    Started(p) =>
      /\ IsMessageEvent(prod[p].event)
      /\ Get(prod[p].event, kMessage).s # << >>
      /\ \A q \in 1..(p - 1) : TimeOf(q) <= TimeOf(p)

C16_Witness ==
  \E p \in Invocations :
    /\ p > 1
    /\ Started(p)
    /\ TimeOf(p - 1) < TimeOf(p)

\* C17: every record of the stream carries the partition key 'key-1' and
\* the stream has the one shard, and the consumer logs the records in the
\* order of their sequence numbers: of two lines for different records the
\* earlier line is for the earlier record, in one batch or over batches,
\* and each line shows what its record was made from.
C17_AppendOrder ==
  /\ shardCount = 1
  /\ \A i \in 1..Len(stream) :
       /\ stream[i].PartitionKey = "key-1"
       /\ stream[i].SequenceNumber = i
  /\ \A b \in 1..Len(consLog) :
       /\ consLog[b].seq \in 1..Len(stream)
       /\ consLog[b].value = stream[consLog[b].seq].source
       /\ \A a \in 1..(b - 1) :
            consLog[a].seq # consLog[b].seq => consLog[a].seq < consLog[b].seq

C17_Witness ==
  /\ Len(consLog) = 2
  /\ consLog[1].run = consLog[2].run
  /\ consLog[1].value # consLog[2].value
  /\ consLog[1].seq = 1 /\ consLog[2].seq = 2

\* what the consumer handler makes of a batch when nothing else runs
RECURSIVE Alone(_, _, _)
Alone(Records, i, lines) ==
  IF i > Len(Records) THEN [lines |-> lines, result |-> Fulfilled]
  ELSE LET r == JSON_parse(Buffer_toString(Buffer_from_base64(Records[i].kinesis.data), 1))
       IN IF r.ok THEN Alone(Records, i + 1, Append(lines, r.value))
          ELSE [lines |-> lines, result |-> Rejected(SyntaxError)]

\* the values of the lines the consumer invocation in hand has logged
RECURSIVE ValuesOfRun(_, _)
ValuesOfRun(log, run) ==
  IF log = << >> THEN << >>
  ELSE IF log[1].run = run THEN << log[1].value >> \o ValuesOfRun(Tail(log), run)
  ELSE ValuesOfRun(Tail(log), run)

IsPrefix(a, b) == Len(a) <= Len(b) /\ a = SubSeq(b, 1, Len(a))

\* C15: whatever the other invocations do meanwhile, a producer invocation
\* builds, sends and logs the event of its own clock reading and resolves
\* or rejects by its own request alone, and a consumer invocation logs and
\* returns what the handler makes of its own batch when it runs alone.
C15_NoSharedState ==
  /\ \A p \in Invocations :
       /\ Started(p) =>
            /\ prod[p].event = MessageEvent(sHello, prod[p].now)
            /\ prod[p].sends = << PutRecordCommand(prod[p].event) >>
       /\ \A i \in LinesOf(p) : prodLog[i].value = prod[p].event
       /\ prod[p].pc = "done" => prod[p].req = "stored" /\ prod[p].result = Fulfilled
       /\ prod[p].pc = "failed" => prod[p].result = Rejected(prod[p].req)
  /\ cons.run > 0 =>
       LET alone == Alone(cons.Records, 1, << >>)
           mine == ValuesOfRun(consLog, cons.run)
       IN /\ IsPrefix(mine, alone.lines)
          /\ cons.pc \in {"done", "failed"} =>
               mine = alone.lines /\ cons.result = alone.result

C15_Witness ==
  /\ \A p \in Invocations : prod[p].pc = "done"
  /\ prod[1].now < prod[2].now
  /\ LinesOf(1) = {2}
  /\ cons.pc = "done" /\ cons.run = 2

\* C14: every record the stream has taken is in the end logged by the
\* consumer, with what it was made from, the records taken before the
\* event source mapping started to poll among them.
C14_AtLeastOnce ==
  \A j \in 1..MaxInvocations :
    (Len(stream) >= j) ~>
      (\E i \in 1..Len(consLog) :
         consLog[i].seq = j /\ consLog[i].value = stream[j].source)

\* a record taken before the event source mapping polled is logged
C14_Witness ==
  /\ Len(stream) = 2
  /\ Len(consLog) = 2
  /\ consLog[1].run = 1 /\ consLog[2].run = 1
  /\ consLog[2].value = stream[2].source
  /\ outcomes = << Fulfilled >>

(***************************************************************************)
(* The consumer side fed by any writer of the stream: records that are no  *)
(* JSON among Messages, the event source mapping handing a rejected batch  *)
(* over again.                                                             *)
(***************************************************************************)
FeedItems ==
  { Item("message", m, Encode(m)) : m \in TestMessages }
  \cup { Item("malformed", Undefined, Buffer_from(sHello)) }

PutForeign ==
  /\ Len(stream) < MaxStream
  /\ \E item \in FeedItems :
       stream' = Append(stream,
                   [PartitionKey |-> PartitionKey, Data |-> item.Data,
                    SequenceNumber |-> Len(stream) + 1, inv |-> 0,
                    kind |-> item.kind, source |-> item.source])
  /\ UNCHANGED << clock, producerVars, consumerVars, infraVars >>

Poll == cons.run < MaxRuns /\ Deliver

NextFeed ==
  \/ PutForeign
  \/ Attach
  \/ Poll
  \/ ConsumerDecode
  \/ ConsumerParse
  \/ ConsumerLog
  \/ ConsumerReturn

SpecFeed == Init /\ [][NextFeed]_vars

(***************************************************************************)
(* The consumer handler called again and again with one batch.             *)
(***************************************************************************)
RepeatBatches == UNION { [1..n -> FeedItems] : n \in 0..MaxBatch }

InvokeFirst ==
  /\ cons.run = 0
  /\ \E batch \in RepeatBatches :
       /\ ConsumerInvoke(KinesisEvent(
            [i \in 1..Len(batch) |->
               [PartitionKey |-> PartitionKey, Data |-> batch[i].Data,
                SequenceNumber |-> i]]))
       /\ given' = batch
  /\ UNCHANGED << clock, producerVars, stream, consLog, cursor, outcomes, infraVars >>

\* the caller takes the result
HandBack ==
  /\ cons.pc \in {"done", "failed"}
  /\ cons' = [cons EXCEPT !.pc = "idle"]
  /\ outcomes' = Append(outcomes, cons.result)
  /\ UNCHANGED << clock, producerVars, stream, consLog, trace, cursor, given, infraVars >>

\* and calls the handler with the same event once more
InvokeAgain ==
  /\ cons.run \in 1..(MaxRuns - 1)
  /\ ConsumerInvoke([Records |-> cons.Records])
  /\ UNCHANGED << clock, producerVars, stream, consLog, cursor, given, outcomes, infraVars >>

NextRepeat ==
  \/ InvokeFirst
  \/ ConsumerDecode
  \/ ConsumerParse
  \/ ConsumerLog
  \/ HandBack
  \/ InvokeAgain

SpecRepeat == Init /\ [][NextRepeat]_vars

\* the lines of an invocation, without the invocation's number
RECURSIVE LinesOfRun(_, _)
LinesOfRun(log, run) ==
  IF log = << >> THEN << >>
  ELSE IF log[1].run = run
       THEN << [seq |-> log[1].seq, value |-> log[1].value] >> \o LinesOfRun(Tail(log), run)
       ELSE LinesOfRun(Tail(log), run)

Finished(run) == run <= Len(outcomes) \/ (run = cons.run /\ Terminal)
OutcomeOf(run) == IF run <= Len(outcomes) THEN outcomes[run] ELSE cons.result

\* C12: a batch fails as a whole.  When the handler has failed at record k
\* it has logged the records 0..k-1 of its batch in this invocation and
\* its promise is rejected; the checkpoint never passes a record that
\* failed; and the invocation after a failed one is handed the same records
\* again and logs the same lines again, failing at the same record.
C12_FailsWholeBatch ==
  /\ cons.pc = "failed" =>
       /\ cons.result.status = "rejected"
       /\ LinesOfRun(consLog, cons.run) =
            [i \in 1..(cons.idx - 1) |->
               [seq |-> cons.Records[i].kinesis.sequenceNumber,
                value |-> given[i].source]]
  /\ \A i \in 1..Len(stream) : (cursor # NoIterator /\ i <= cursor) => stream[i].kind # "malformed"
  /\ \A r \in 1..Len(outcomes) :
       (outcomes[r].status = "rejected" /\ r + 1 <= cons.run) =>
         /\ IsPrefix(LinesOfRun(consLog, r + 1), LinesOfRun(consLog, r))
         /\ Finished(r + 1) =>
              /\ LinesOfRun(consLog, r + 1) = LinesOfRun(consLog, r)
              /\ OutcomeOf(r + 1) = outcomes[r]

C12_Witness ==
  /\ Len(outcomes) = 2
  /\ outcomes[1].status = "rejected"
  /\ Len(LinesOfRun(consLog, 1)) = 2
  /\ Len(consLog) = 4
  /\ consLog[3].seq = 1 /\ consLog[4].seq = 2

\* C13: called again with the same batch, the handler settles as it did
\* before and logs the same lines in the same order; the event it was
\* given is as it was.
C13_SameEveryTime ==
  /\ \A r1, r2 \in 1..cons.run :
       (Finished(r1) /\ Finished(r2)) =>
         /\ OutcomeOf(r1) = OutcomeOf(r2)
         /\ LinesOfRun(consLog, r1) = LinesOfRun(consLog, r2)
  /\ cons.run > 0 =>
       /\ Len(cons.Records) = Len(given)
       /\ \A i \in 1..Len(given) :
            cons.Records[i].kinesis.data = Base64Encode(given[i].Data)

C13_Witness ==
  /\ cons.run = 3
  /\ Terminal
  /\ Len(outcomes) = 2
  /\ outcomes[1] = Fulfilled
  /\ Len(given) = 2
  /\ Len(consLog) = 6

(***************************************************************************)
(* Deployment: `npm run deploy` and `npm run destroy`, one after another,  *)
(* each a chain of cdk commands joined by &&; a cdk command either does    *)
(* its work or fails and leaves the account as it was.                     *)
(***************************************************************************)
handlerVars == << clock, producerVars, consumerVars >>

ScriptOf(name) == IF name = "deploy" THEN deploy ELSE destroy

Running(command) ==
  /\ npm.status = "running"
  /\ ScriptOf(npm.script)[npm.at] = command

\* a && b: b runs if a succeeded, and the script fails with a
AndThen(ok) ==
  IF ~ok THEN [npm EXCEPT !.status = "failed"]
  ELSE IF npm.at < Len(ScriptOf(npm.script)) THEN [npm EXCEPT !.at = @ + 1]
  ELSE [npm EXCEPT !.status = "ok"]

NpmRun ==
  /\ npm.status # "running"
  /\ npm.runs < MaxScripts
  /\ \E name \in {"deploy", "destroy"} :
       npm' = [script |-> name, at |-> 1, status |-> "running", runs |-> npm.runs + 1]
  /\ UNCHANGED << handlerVars, stream, stacks, ssm, env, eventSource >>

DeployStream ==
  /\ Running("deploy:stream")
  /\ \E ok \in BOOLEAN :
       /\ IF ok
          THEN /\ stacks' = stacks \cup {"StreamStack"}
               /\ ssm' = StreamParameters(ssm)
          ELSE UNCHANGED << stacks, ssm >>
       /\ npm' = AndThen(ok)
  /\ UNCHANGED << handlerVars, stream, env, eventSource >>

DeployProducer ==
  /\ Running("deploy:producer")
  /\ \E built \in BOOLEAN :
       LET ok == built /\ ProducerResolves(ssm)
       IN /\ IF ok
             THEN /\ stacks' = stacks \cup {"ProducerStack"}
                  /\ env' = ProducerEnvironment(ssm)
             ELSE UNCHANGED << stacks, env >>
          /\ npm' = AndThen(ok)
  /\ UNCHANGED << handlerVars, stream, ssm, eventSource >>

DeployConsumer ==
  /\ Running("deploy:consumer")
  /\ \E built \in BOOLEAN :
       LET ok == built /\ ConsumerResolves(ssm)
       IN /\ IF ok
             THEN /\ stacks' = stacks \cup {"ConsumerStack"}
                  /\ eventSource' = ConsumerEventSource(ssm)
             ELSE UNCHANGED << stacks, eventSource >>
          /\ npm' = AndThen(ok)
  /\ UNCHANGED << handlerVars, stream, ssm, env >>

DestroyConsumer ==
  /\ Running("destroy:consumer")
  /\ \E ok \in BOOLEAN :
       /\ IF ok
          THEN /\ stacks' = stacks \ {"ConsumerStack"}
               /\ eventSource' = NoEventSource
          ELSE UNCHANGED << stacks, eventSource >>
       /\ npm' = AndThen(ok)
  /\ UNCHANGED << handlerVars, stream, ssm, env >>

DestroyProducer ==
  /\ Running("destroy:producer")
  /\ \E ok \in BOOLEAN :
       /\ IF ok
          THEN /\ stacks' = stacks \ {"ProducerStack"}
               /\ env' = NoEnvironment
          ELSE UNCHANGED << stacks, env >>
       /\ npm' = AndThen(ok)
  /\ UNCHANGED << handlerVars, stream, ssm, eventSource >>

\* RemovalPolicy.DESTROY: the stream goes with its stack, and the two
\* parameters are resources of the stack
DestroyStream ==
  /\ Running("destroy:stream")
  /\ \E ok \in BOOLEAN :
       /\ IF ok
          THEN /\ stacks' = stacks \ {"StreamStack"}
               /\ ssm' = DeleteParameter(DeleteParameter(ssm, StreamNameParam),
                                         StreamArnParam)
               /\ stream' = << >>
          ELSE UNCHANGED << stacks, ssm, stream >>
       /\ npm' = AndThen(ok)
  /\ UNCHANGED << handlerVars, env, eventSource >>

NextDeploy ==
  \/ NpmRun
  \/ DeployStream
  \/ DeployProducer
  \/ DeployConsumer
  \/ DestroyConsumer
  \/ DestroyProducer
  \/ DestroyStream

SpecDeploy == InitDeploy /\ [][NextDeploy]_vars

\* C18: the StreamStack writes the stream's name and ARN under
\* /streams/my-stream/name and /streams/my-stream/arn, the producer's
\* STREAM_NAME is the value under the first and the consumer's event source
\* the value under the second, so whenever both are deployed the stream the
\* producer names is the stream the consumer is mapped to.
C18_SameStream ==
  /\ "StreamStack" \in stacks =>
       /\ DOMAIN ssm = {"/streams/my-stream/name", "/streams/my-stream/arn"}
       /\ ssm["/streams/my-stream/name"] = streamName
       /\ ssm["/streams/my-stream/arn"] = Arn(streamName)
  /\ "ProducerStack" \in stacks => env.STREAM_NAME = streamName
  /\ "ConsumerStack" \in stacks => eventSource = Arn(streamName)
  /\ {"ProducerStack", "ConsumerStack"} \subseteq stacks =>
       Arn(env.STREAM_NAME) = eventSource

C18_Witness ==
  /\ stacks = {"StreamStack", "ProducerStack", "ConsumerStack"}
  /\ npm.script = "deploy" /\ npm.status = "ok"
  /\ env.STREAM_NAME = "MyStream"
  /\ eventSource = Arn("MyStream")

\* C19: deploy goes stream, producer, consumer and stops at the command
\* that fails, destroy goes consumer, producer, stream; so the producer or
\* the consumer stack exists only while the stream stack and its two
\* parameters exist, and the consumer stack only while the producer stack
\* does.
C19_StreamOutlives ==
  /\ (stacks \cap {"ProducerStack", "ConsumerStack"} # {}) =>
       /\ "StreamStack" \in stacks
       /\ {StreamNameParam, StreamArnParam} \subseteq DOMAIN ssm
  /\ "ConsumerStack" \in stacks => "ProducerStack" \in stacks
  /\ (npm.script = "deploy" /\ npm.status = "ok") =>
       stacks = {"StreamStack", "ProducerStack", "ConsumerStack"}
  /\ (npm.script = "destroy" /\ npm.status = "ok") => stacks = {} /\ DOMAIN ssm = {}

C19_Witness ==
  /\ npm.script = "destroy" /\ npm.status = "running" /\ npm.at = 3
  /\ stacks = {"StreamStack"}
  /\ npm.runs = 2
  /\ env = NoEnvironment /\ eventSource = NoEventSource

\* the places of the stream that hold a record that is not JSON
Poisoned == { i \in 1..Len(stream) : stream[i].kind = "malformed" }
FirstPoisoned == CHOOSE i \in Poisoned : \A j \in Poisoned : i <= j

\* C21: a record that is not JSON blocks the shard.  With a rejected batch
\* handed over again from the same place, every invocation whose batch
\* holds the first such record fails at that record, every invocation
\* after a rejected one is rejected, and no line is ever logged for that
\* record or for a record after it, in the batch or later in the stream.
C21_PoisonedRecordBlocks ==
  Poisoned # {} =>
    /\ cursor # NoIterator => cursor < FirstPoisoned
    /\ \A i \in 1..Len(consLog) : consLog[i].seq < FirstPoisoned
    /\ cons.pc = "failed" =>
         /\ cons.Records[cons.idx].kinesis.sequenceNumber = FirstPoisoned
         /\ cons.idx = FirstPoisoned - cursor
    /\ (cons.pc = "done" /\ cons.Records # << >>) =>
         cons.Records[Len(cons.Records)].kinesis.sequenceNumber < FirstPoisoned
    /\ \A r1, r2 \in 1..Len(outcomes) :
         (r1 < r2 /\ outcomes[r1].status = "rejected") =>
           outcomes[r2].status = "rejected"

C21_Witness ==
  /\ Len(stream) = 3
  /\ Poisoned = {2}
  /\ Len(outcomes) = 3
  /\ outcomes[1] = Fulfilled
  /\ outcomes[2].status = "rejected" /\ outcomes[3].status = "rejected"
  /\ Len(consLog) = 1

StartedInvocations == { p \in Invocations : Started(p) }

\* C22: there are no more `Producer sent:` lines than records in the
\* stream and no more records than invocations started, and every record
\* is what one started invocation sent, which has no other record.
C22_LinesRecordsInvocations ==
  /\ Len(prodLog) <= Len(stream)
  /\ Len(stream) <= Cardinality(StartedInvocations)
  /\ \A i \in 1..Len(stream) :
       /\ stream[i].inv \in StartedInvocations
       /\ stream[i].Data = prod[stream[i].inv].sends[1].Data
       /\ RecordsOf(stream[i].inv) = {i}

C22_Witness ==
  /\ Len(prodLog) = 1
  /\ Len(stream) = 2
  /\ Cardinality(StartedInvocations) = 2
  /\ \E p \in Invocations : prod[p].pc = "timedout"

ReportedFailed(p) == prod[p].pc \in {"failed", "timedout"}

\* C23 as stated: an invocation that failed, by an error of the send or by
\* the deadline, has no record in the stream.
C23_Original ==
  \A p \in Invocations : ReportedFailed(p) => RecordsOf(p) = {}

\* C23 amended: an invocation that rejected with the error of its send has
\* no record in the stream; one that was cut off at the deadline has at
\* most one, and has one when the stream took the record and the answer
\* had not come; neither has logged a line.
C23_FailedLeavesAtMostOne ==
  \A p \in Invocations :
    /\ prod[p].pc = "failed" => RecordsOf(p) = {} /\ prod[p].req \in ServiceErrors
    /\ prod[p].pc = "timedout" =>
         /\ Cardinality(RecordsOf(p)) <= 1
         /\ (RecordsOf(p) # {}) = (prod[p].req = "stored")
    /\ ReportedFailed(p) => LinesOf(p) = {} /\ prod[p].result.status = "rejected"

C23_Witness ==
  \E p, q \in Invocations :
    /\ prod[p].pc = "timedout" /\ RecordsOf(p) # {}
    /\ prod[q].pc = "failed" /\ RecordsOf(q) = {}

TimeOfRecord(i) == Get(stream[i].source, kTime).n

\* C24 as stated: of two records of the stream the earlier has the time
\* that is not greater, whether or not their invocations overlapped.
C24_Original ==
  \A i, j \in 1..Len(stream) : i < j => TimeOfRecord(i) <= TimeOfRecord(j)

\* C24 amended: of two records of the stream the earlier has the time that
\* is not greater if its invocation started before the invocation of the
\* later one; of two invocations that overlap the one started later may
\* have its record taken first, and then the earlier record has the
\* greater time.
C24_OrderOfStarts ==
  \A i, j \in 1..Len(stream) :
    (i < j /\ stream[i].inv < stream[j].inv) =>
      TimeOfRecord(i) <= TimeOfRecord(j)

C24_Witness ==
  /\ Len(stream) = 2
  /\ stream[1].inv = 1
  /\ TimeOfRecord(1) < TimeOfRecord(2)
  /\ prod[1].pc = "awaiting"

\* C25: a step of the consumer handler leaves the stream as it is, and so
\* does a step of the producer handler itself; the stream changes only
\* when it takes the record an invocation has sent, and then it is the
\* stream as it was with that one record at its end.
C25_OnlyProducerAppends ==
  [][ /\ (cons' # cons \/ consLog' # consLog \/ trace' # trace) => stream' = stream
      /\ (\E p \in Invocations : prod'[p].pc # prod[p].pc) => stream' = stream
      /\ stream' # stream =>
           \E p \in Invocations :
             /\ prod[p].req = "sent" /\ prod'[p].req = "stored"
             /\ Len(stream') = Len(stream) + 1
             /\ SubSeq(stream', 1, Len(stream)) = stream
             /\ stream'[Len(stream')].inv = p
             /\ stream'[Len(stream')].Data = prod[p].sends[1].Data
             /\ stream'[Len(stream')].PartitionKey = prod[p].sends[1].PartitionKey
    ]_vars

C25_Witness ==
  /\ Len(stream) = 2
  /\ Len(consLog) = 2
  /\ consLog[1].run # consLog[2].run
  /\ cons.pc = "done"

====
